---- MODULE Spec2Model ----
(***************************************************************************)
(* queuectl: a SQLite-backed job queue with worker processes, retries with *)
(* exponential backoff and a dead-letter queue (src/queuectl.js).          *)
(*                                                                         *)
(* The store (tables jobs and config) is shared by independent processes:  *)
(* workers running workerRunLoop, and the short-lived CLI commands         *)
(* enqueue, config set and dlq retry.  One action is one SQL statement or  *)
(* transaction together with the process-local code that follows it, so    *)
(* processes interleave exactly where the database lets them.              *)
(*                                                                         *)
(* Time is a global clock `now` in whole seconds; every new Date() reads   *)
(* it.  ISO-8601 strings of the code compare as the instants they denote.  *)
(*                                                                         *)
(* A worker is one synchronous JavaScript call: workerRunLoop never        *)
(* returns to the event loop (it sleeps in Atomics.wait and runs commands  *)
(* with spawnSync).  Callbacks registered with process.on run from the     *)
(* event loop only, so a signal delivered to a worker stays queued.        *)
(***************************************************************************)
EXTENDS Integers, FiniteSets, Sequences, TLC

\* ---------------------------------------------------------------- bounds
NumJobs      == 2      \* job ids that can be enqueued
NumWorkers   == 2      \* worker processes that can be spawned
NumRequeuers == 2      \* `dlq retry` invocations that can be run
MaxTime      == 2      \* the clock stops advancing here

\* ------------------------------------------------------ program constants
DEFAULT_BACKOFF_BASE == 2
DEFAULT_MAX_RETRIES  == 3

JobIds    == 1..NumJobs
Workers   == 1..NumWorkers
Requeuers == 1..NumRequeuers

NULL == "null"

\* Shell commands a job may carry, and the exit statuses spawnSync can report
\* for each (res.status; a process that could not be started has no numeric
\* status and is folded to 1).
Commands == {"exit 0", "exit 2", "test -e flag"}

ExitStatus(command) ==
    CASE command = "exit 0" -> {0}
      [] command = "exit 2" -> {2}
      [] OTHER              -> {0, 1}

\* Values given to `config set`; the store keeps them as strings.
ConfigKeys   == {"backoff_base", "default_max_retries"}
ConfigValues == {"1"}

\* String(n) for the numbers the program writes into config.
String(n) ==
    CASE n = 0 -> "0" [] n = 1 -> "1" [] n = 2 -> "2" [] OTHER -> "3"

\* parseInt / parseFloat on the strings above.
parseInt(s) ==
    CASE s = "0" -> 0 [] s = "1" -> 1 [] s = "2" -> 2 [] OTHER -> 3

parseFloat(s) == parseInt(s)

\* Math.pow for a natural exponent.
RECURSIVE pow(_, _)
pow(base, e) == IF e <= 0 THEN 1 ELSE base * pow(base, e - 1)

VARIABLES
    now,          \* the wall clock
    jobs,         \* table jobs: id -> row
    config,       \* table config: key -> value, NULL while the key has no row
    pc,           \* per worker: where the process is
    jobId,        \* per worker: local jobId of the current iteration
    job,          \* per worker: row read by getJobById (the columns used later)
    backoffBase,  \* per worker: const backoffBase
    shuttingDown, \* per worker: let shuttingDown
    sigPending,   \* per worker: a SIGTERM/SIGINT is queued for the event loop
    rq            \* per dlq-retry invocation: its progress and exit code

vars == <<now, jobs, config, pc, jobId, job, backoffBase,
          shuttingDown, sigPending, rq>>

workerVars == <<pc, jobId, job, backoffBase, shuttingDown, sigPending>>

\* ------------------------------------------------------------------ store
\* initDb seeding with INSERT OR REPLACE.
initDbReplace(c) ==
    [k \in ConfigKeys |->
        IF k = "backoff_base" THEN String(DEFAULT_BACKOFF_BASE)
        ELSE String(DEFAULT_MAX_RETRIES)]

\* initDb: INSERT OR IGNORE of the two default config rows.
initDb(c) ==
    [k \in ConfigKeys |->
        IF c[k] # NULL THEN c[k]
        ELSE IF k = "backoff_base" THEN String(DEFAULT_BACKOFF_BASE)
        ELSE String(DEFAULT_MAX_RETRIES)]

\* getConfig: opens the store (seeding it) and reads one key.
getConfig(c, key) == initDb(c)[key]

Ids == DOMAIN jobs

\* The WHERE clause without available_at <= ?.
EligibleAnyTime(t) ==
    {id \in Ids : jobs[id].state = "pending"}

\* selectStmt's WHERE clause.
Eligible(t) ==
    {id \in Ids : jobs[id].state = "pending" /\ jobs[id].available_at <= t}

\* selectStmt without ORDER BY created_at.
selectStmtAny(t) == Eligible(t)

\* selectStmt: ORDER BY created_at LIMIT 1.  Rows with equal created_at are
\* not ordered by the statement, so any of them may be the one returned.
selectStmt(t) ==
    {id \in Eligible(t) :
        \A o \in Eligible(t) : jobs[id].created_at <= jobs[o].created_at}

\* updateClaimStmt with the increment of attempts left out.
updateClaimStmtNoIncrement(t, id) ==
    IF jobs[id].state = "pending"
    THEN [jobs EXCEPT ![id].state = "processing", ![id].updated_at = t]
    ELSE jobs

\* updateClaimStmt: UPDATE ... SET state='processing', attempts=attempts+1,
\* updated_at=? WHERE id=? AND state='pending'.  The table after it; a row
\* changed exactly when the table differs.
updateClaimStmt(t, id) ==
    IF jobs[id].state = "pending"
    THEN [jobs EXCEPT ![id].state = "processing",
                      ![id].attempts = @ + 1,
                      ![id].updated_at = t]
    ELSE jobs

\* updateJobStmt: UPDATE ... WHERE id=?  (no condition on the stored state).
updateJobStmt(state, updated, err, avail, id) ==
    [jobs EXCEPT ![id].state = state,
                 ![id].updated_at = updated,
                 ![id].last_error = err,
                 ![id].available_at = avail]

\* The sweep, also handing the attempt back.
recoverStmtRefund(t) ==
    [id \in Ids |->
        IF jobs[id].state = "processing"
        THEN [jobs[id] EXCEPT !.state = "pending", !.updated_at = t,
                              !.attempts = @ - 1]
        ELSE jobs[id]]

\* The startup sweep: UPDATE jobs SET state='pending', updated_at=? WHERE
\* state='processing'.
recoverStmt(t) ==
    [id \in Ids |->
        IF jobs[id].state = "processing"
        THEN [jobs[id] EXCEPT !.state = "pending", !.updated_at = t]
        ELSE jobs[id]]

\* dlqRetry's UPDATE without attempts=0.
requeueStmtKeepAttempts(t, id) ==
    [jobs EXCEPT ![id].state = "pending",
                 ![id].updated_at = t,
                 ![id].available_at = t]

\* dlqRetry's UPDATE jobs SET state='pending', attempts=0, updated_at=?,
\* available_at=? WHERE id=?
requeueStmt(t, id) ==
    [jobs EXCEPT ![id].state = "pending",
                 ![id].attempts = 0,
                 ![id].updated_at = t,
                 ![id].available_at = t]

\* --------------------------------------------------------------- initial
NoJob == [id |-> 0, command |-> NULL, attempts |-> 0, max_retries |-> 0]

Init ==
    /\ now = 0
    /\ jobs = << >>
    /\ config = [k \in ConfigKeys |-> NULL]
    /\ pc = [w \in Workers |-> "unspawned"]
    /\ jobId = [w \in Workers |-> 0]
    /\ job = [w \in Workers |-> NoJob]
    /\ backoffBase = [w \in Workers |-> 0]
    /\ shuttingDown = [w \in Workers |-> FALSE]
    /\ sigPending = [w \in Workers |-> FALSE]
    /\ rq = [r \in Requeuers |-> [pc |-> "unspawned", id |-> 0, exit |-> -1]]

\* ----------------------------------------------------------------- clock
Tick ==
    /\ now < MaxTime
    /\ now' = now + 1
    /\ UNCHANGED <<jobs, config, workerVars, rq>>

\* ------------------------------------------------------------ CLI: enqueue
\* What `enqueue <json>` can be given.  parsed = FALSE is a string JSON.parse
\* rejects; id = 0, command = NULL and max_retries = Absent are absent keys.
Absent == -1

Descriptors ==
    [parsed : {TRUE}, id : JobIds \cup {0}, command : Commands \cup {NULL},
     max_retries : {Absent, 0, 1}]
    \cup {[parsed |-> FALSE, id |-> 0, command |-> NULL, max_retries |-> Absent]}

\* job.max_retries || parseInt(getConfig('default_max_retries') || DEFAULT_MAX_RETRIES)
maxRetriesOf(d, c) ==
    IF d.max_retries # Absent /\ d.max_retries # 0
    THEN d.max_retries
    ELSE parseInt(getConfig(c, "default_max_retries"))

\* INSERT INTO jobs(...) VALUES(id, command, 'pending', 0, max_retries, ts, ts, ts)
insertRow(command, max_retries, ts) ==
    [command |-> command, state |-> "pending", attempts |-> 0,
     max_retries |-> max_retries, created_at |-> ts, updated_at |-> ts,
     available_at |-> ts, last_error |-> NULL]

\* enqueueJson with INSERT OR REPLACE.
enqueueJsonReplace(d) ==
    /\ UNCHANGED <<now, workerVars, rq>>
    /\ IF ~d.parsed
       THEN UNCHANGED <<jobs, config>>
       ELSE /\ config' = initDb(config)
            /\ IF d.command = NULL
               THEN UNCHANGED jobs
               ELSE \E id \in JobIds :
                      /\ IF d.id # 0 THEN id = d.id ELSE id \notin Ids
                      /\ jobs' = [o \in Ids \cup {id} |->
                                   IF o = id
                                   THEN insertRow(d.command, maxRetriesOf(d, config), now)
                                   ELSE jobs[o]]

\* enqueueJson without the test of line 70.
enqueueJsonUnchecked(d) ==
    /\ UNCHANGED <<now, workerVars, rq>>
    /\ IF ~d.parsed
       THEN UNCHANGED <<jobs, config>>
       ELSE /\ config' = initDb(config)
            /\ \E id \in JobIds :
                  /\ IF d.id # 0 THEN id = d.id ELSE id \notin Ids
                  /\ IF id \in Ids
                     THEN UNCHANGED jobs
                     ELSE jobs' = jobs @@
                            (id :> insertRow(d.command, maxRetriesOf(d, config), now))

enqueueJson(d) ==
    /\ UNCHANGED <<now, workerVars, rq>>
    /\ IF ~d.parsed
       THEN \* Invalid JSON: exit(2) before the store is opened
            UNCHANGED <<jobs, config>>
       ELSE /\ config' = initDb(config)
            /\ IF d.command = NULL
               THEN \* Job must include 'command': exit(2)
                    UNCHANGED jobs
               ELSE \E id \in JobIds :
                      \* job.id || uuidv4(): a generated id is a fresh one
                      /\ IF d.id # 0 THEN id = d.id ELSE id \notin Ids
                      /\ IF id \in Ids
                         THEN \* PRIMARY KEY violation: exit(1)
                              UNCHANGED jobs
                         ELSE jobs' = jobs @@
                                (id :> insertRow(d.command, maxRetriesOf(d, config), now))

\* --------------------------------------------------------- CLI: config set
setConfig(key, value) ==
    /\ config' = [initDb(config) EXCEPT ![key] = value]
    /\ UNCHANGED <<now, jobs, workerVars, rq>>

\* ---------------------------------------------------------- CLI: dlq retry
\* dlqRetry runs two statements, each committed on its own: the SELECT that
\* looks for the dead row, then the UPDATE.
dlqRetrySelect(r, id) ==
    /\ rq[r].pc = "unspawned"
    /\ \A q \in Requeuers : q < r => rq[q].pc # "unspawned"
    /\ config' = initDb(config)
    /\ IF id \in Ids /\ jobs[id].state = "dead"
       THEN rq' = [rq EXCEPT ![r] = [pc |-> "selected", id |-> id, exit |-> -1]]
       ELSE \* Job not found in DLQ: exit(1)
            rq' = [rq EXCEPT ![r] = [pc |-> "exited", id |-> 0, exit |-> 1]]
    /\ UNCHANGED <<now, jobs, workerVars>>

dlqRetryUpdate(r) ==
    /\ rq[r].pc = "selected"
    /\ jobs' = requeueStmt(now, rq[r].id)
    /\ rq' = [rq EXCEPT ![r] = [pc |-> "exited", id |-> 0, exit |-> 0]]
    /\ UNCHANGED <<now, config, workerVars>>

\* ------------------------------------------------------------------ worker
Running(w) == pc[w] \in {"loop", "claimed", "exec"}

\* workerRunLoop up to the while: initDb, the recovery sweep, the signal
\* handlers, const backoffBase.
workerStart(w) ==
    /\ pc[w] = "unspawned"
    /\ \A v \in Workers : v < w => pc[v] # "unspawned"
    /\ config' = initDb(config)
    /\ jobs' = recoverStmt(now)
    /\ backoffBase' = [backoffBase EXCEPT ![w] = parseFloat(getConfig(config, "backoff_base"))]
    /\ pc' = [pc EXCEPT ![w] = "loop"]
    /\ UNCHANGED <<now, jobId, job, shuttingDown, sigPending, rq>>

\* One pass through the head of the while: the shutdown check, then the claim
\* transaction (selectStmt and updateClaimStmt in one db.transaction).  With
\* nothing eligible the worker sleeps POLL_INTERVAL_MS and comes back here.
loopHead(w) ==
    /\ pc[w] = "loop"
    /\ IF shuttingDown[w]
       THEN /\ pc' = [pc EXCEPT ![w] = "exited"]
            /\ UNCHANGED <<jobs, jobId>>
       ELSE IF selectStmt(now) = {}
       THEN UNCHANGED <<jobs, jobId, pc>>
       ELSE \E id \in selectStmt(now) :
              /\ jobs' = updateClaimStmt(now, id)
              /\ jobId' = [jobId EXCEPT ![w] = IF jobs'[id] # jobs[id] THEN id ELSE 0]
              /\ pc' = [pc EXCEPT ![w] = IF jobs'[id] # jobs[id] THEN "claimed" ELSE "loop"]
    /\ UNCHANGED <<now, config, job, backoffBase, shuttingDown, sigPending, rq>>

\* getJobById.get(jobId): SELECT * of the claimed row, outside the transaction.
\* Of the row only id, command, attempts and max_retries are read afterwards.
getJobById(w) ==
    /\ pc[w] = "claimed"
    /\ job' = [job EXCEPT ![w] =
                 [id |-> jobId[w], command |-> jobs[jobId[w]].command,
                  attempts |-> jobs[jobId[w]].attempts,
                  max_retries |-> jobs[jobId[w]].max_retries]]
    /\ pc' = [pc EXCEPT ![w] = "exec"]
    /\ UNCHANGED <<now, jobs, config, jobId, backoffBase,
                   shuttingDown, sigPending, rq>>

\* `exit_code=${rc}`
errText(rc) == IF rc = 1 THEN "exit_code=1" ELSE "exit_code=2"

\* resultWrite with the delay taken from the attempts before the claim.
resultWritePreIncrement(w, rc) ==
    IF rc = 0
    THEN updateJobStmt("completed", now, NULL, now, job[w].id)
    ELSE IF job[w].attempts >= job[w].max_retries
    THEN updateJobStmt("dead", now, errText(rc), now, job[w].id)
    ELSE updateJobStmt("pending", now, errText(rc),
                       now + pow(backoffBase[w], job[w].attempts - 1), job[w].id)

\* resultWrite retiring a job only once attempts exceed max_retries.
resultWriteStrict(w, rc) ==
    IF rc = 0
    THEN updateJobStmt("completed", now, NULL, now, job[w].id)
    ELSE IF job[w].attempts > job[w].max_retries
    THEN updateJobStmt("dead", now, errText(rc), now, job[w].id)
    ELSE updateJobStmt("pending", now, errText(rc),
                       now + pow(backoffBase[w], job[w].attempts), job[w].id)

\* resultWrite taking the base from the config table at the time of the write.
resultWriteLiveConfig(w, rc) ==
    IF rc = 0
    THEN updateJobStmt("completed", now, NULL, now, job[w].id)
    ELSE IF job[w].attempts >= job[w].max_retries
    THEN updateJobStmt("dead", now, errText(rc), now, job[w].id)
    ELSE updateJobStmt("pending", now, errText(rc),
                       now + pow(parseFloat(getConfig(config, "backoff_base")),
                                 job[w].attempts), job[w].id)

\* The write that follows spawnSync, for exit status rc: completed on 0;
\* otherwise dead when attempts >= max_retries, else pending again after
\* Math.pow(backoffBase, attempts) seconds.
resultWrite(w, rc) ==
    IF rc = 0
    THEN updateJobStmt("completed", now, NULL, now, job[w].id)
    ELSE IF job[w].attempts >= job[w].max_retries
    THEN updateJobStmt("dead", now, errText(rc), now, job[w].id)
    ELSE updateJobStmt("pending", now, errText(rc),
                       now + pow(backoffBase[w], job[w].attempts), job[w].id)

\* spawnSync returns with status rc and the result is written; the worker is
\* back at the head of the loop.
finishWith(w, rc) ==
    /\ pc[w] = "exec"
    /\ rc \in ExitStatus(job[w].command)
    /\ jobs' = resultWrite(w, rc)
    /\ pc' = [pc EXCEPT ![w] = "loop"]
    /\ jobId' = [jobId EXCEPT ![w] = 0]
    /\ job' = [job EXCEPT ![w] = NoJob]
    /\ UNCHANGED <<now, config, backoffBase, shuttingDown, sigPending, rq>>

finishJob(w) == \E rc \in {0, 1, 2} : finishWith(w, rc)

\* A statement of the iteration throws (the store is locked past the busy
\* timeout, the disk is full): catch logs it, sleeps 500 ms and the loop
\* goes on with the next iteration.  Nothing is written.
loopError(w) ==
    /\ pc[w] = "exec"
    /\ pc' = [pc EXCEPT ![w] = "loop"]
    /\ jobId' = [jobId EXCEPT ![w] = 0]
    /\ job' = [job EXCEPT ![w] = NoJob]
    /\ UNCHANGED <<now, jobs, config, backoffBase, shuttingDown, sigPending, rq>>

\* The worker process dies without running any more code (SIGKILL, power
\* loss, the host going down).
crash(w) ==
    /\ Running(w)
    /\ pc' = [pc EXCEPT ![w] = "crashed"]
    /\ jobId' = [jobId EXCEPT ![w] = 0]
    /\ job' = [job EXCEPT ![w] = NoJob]
    /\ backoffBase' = [backoffBase EXCEPT ![w] = 0]
    /\ sigPending' = [sigPending EXCEPT ![w] = FALSE]
    /\ UNCHANGED <<now, jobs, config, shuttingDown, rq>>

\* SIGTERM (worker stop) or SIGINT reaches a worker.  On win32 process.kill
\* ends the target at once.  Elsewhere the runtime queues the signal for the
\* event loop, which is what calls the handler that sets shuttingDown; the
\* loop in workerRunLoop is synchronous (Atomics.wait, spawnSync) and never
\* returns to the event loop, so the handler is not called.
signal(w) ==
    /\ Running(w)
    /\ \/ \* win32
          /\ pc' = [pc EXCEPT ![w] = "terminated"]
          /\ jobId' = [jobId EXCEPT ![w] = 0]
          /\ job' = [job EXCEPT ![w] = NoJob]
          /\ backoffBase' = [backoffBase EXCEPT ![w] = 0]
          /\ sigPending' = [sigPending EXCEPT ![w] = FALSE]
       \/ \* any other platform
          /\ sigPending' = [sigPending EXCEPT ![w] = TRUE]
          /\ UNCHANGED <<pc, jobId, job, backoffBase>>
    /\ UNCHANGED <<now, jobs, config, shuttingDown, rq>>

\* ------------------------------------------------------------------- spec
\* The environment: every CLI command and every process event, on a queue
\* whose enqueue requests all name job id 1.
OneJob == {d \in Descriptors : d.id = 1 \/ ~d.parsed}

Next ==
    \/ Tick
    \/ \E d \in OneJob : enqueueJson(d)
    \/ \E k \in ConfigKeys, v \in ConfigValues : setConfig(k, v)
    \/ \E r \in Requeuers, id \in JobIds : dlqRetrySelect(r, id)
    \/ \E r \in Requeuers : dlqRetryUpdate(r)
    \/ \E w \in Workers : workerStart(w)
    \/ \E w \in Workers : loopHead(w)
    \/ \E w \in Workers : getJobById(w)
    \/ \E w \in Workers : finishJob(w)
    \/ \E w \in Workers : loopError(w)
    \/ \E w \in Workers : crash(w)
    \/ \E w \in Workers : signal(w)

Spec == Init /\ [][Next]_vars

\* The workers alone on a one-job queue, with every way a worker process
\* can stop or lose an iteration: crash, signal, a failing statement.
NextWorkers ==
    \/ Tick
    \/ \E d \in OneJob : enqueueJson(d)
    \/ \E w \in Workers : workerStart(w)
    \/ \E w \in Workers : loopHead(w)
    \/ \E w \in Workers : getJobById(w)
    \/ \E w \in Workers : finishJob(w)
    \/ \E w \in Workers : loopError(w)
    \/ \E w \in Workers : crash(w)
    \/ \E w \in Workers : signal(w)

SpecWorkers == Init /\ [][NextWorkers]_vars

\* The workers on a one-job queue while the operator changes the
\* configuration.
NextBackoff ==
    \/ Tick
    \/ \E d \in OneJob : enqueueJson(d)
    \/ \E k \in ConfigKeys, v \in ConfigValues : setConfig(k, v)
    \/ \E w \in Workers : workerStart(w)
    \/ \E w \in Workers : loopHead(w)
    \/ \E w \in Workers : getJobById(w)
    \/ \E w \in Workers : finishJob(w)
    \/ \E w \in Workers : crash(w)

SpecBackoff == Init /\ [][NextBackoff]_vars

\* A queue of two jobs, each allowed one attempt, worked by one worker and
\* requeued by the operator.
TwoJobs ==
    {d \in Descriptors : d.id \in {1, 2} /\ d.command # NULL /\ d.max_retries = 1}

OneWorker == {w \in Workers : w = 1}

NextQueue ==
    \/ Tick
    \/ \E d \in TwoJobs : enqueueJson(d)
    \/ \E r \in Requeuers, id \in JobIds : dlqRetrySelect(r, id)
    \/ \E r \in Requeuers : dlqRetryUpdate(r)
    \/ \E w \in OneWorker : workerStart(w)
    \/ \E w \in OneWorker : loopHead(w)
    \/ \E w \in OneWorker : getJobById(w)
    \/ \E w \in OneWorker : finishJob(w)

SpecQueue == Init /\ [][NextQueue]_vars

\* One worker that keeps running on a queue of two jobs while statements of
\* its loop may throw.  The worker is scheduled fairly, the commands it runs
\* return and the clock advances.
NextErrors ==
    \/ Tick
    \/ \E d \in TwoJobs : enqueueJson(d)
    \/ \E w \in OneWorker : workerStart(w)
    \/ \E w \in OneWorker : loopHead(w)
    \/ \E w \in OneWorker : getJobById(w)
    \/ \E w \in OneWorker : finishJob(w)
    \/ \E w \in OneWorker : loopError(w)

FairErrors ==
    /\ WF_vars(Tick)
    /\ \A w \in OneWorker :
          /\ WF_vars(workerStart(w))
          /\ WF_vars(loopHead(w))
          /\ WF_vars(getJobById(w))
          /\ WF_vars(finishJob(w))

SpecErrors == Init /\ [][NextErrors]_vars /\ FairErrors

\* One job, workers and concurrent dlq retry invocations, where a worker is
\* started only while no job is in processing, so that the startup sweep
\* finds nothing to move.
NoJobProcessing == \A id \in Ids : jobs[id].state # "processing"

NextNoSweep ==
    \/ Tick
    \/ \E d \in OneJob : enqueueJson(d)
    \/ \E r \in Requeuers, id \in JobIds : dlqRetrySelect(r, id)
    \/ \E r \in Requeuers : dlqRetryUpdate(r)
    \/ \E w \in Workers : NoJobProcessing /\ workerStart(w)
    \/ \E w \in Workers : loopHead(w)
    \/ \E w \in Workers : getJobById(w)
    \/ \E w \in Workers : finishJob(w)
    \/ \E w \in Workers : crash(w)

SpecNoSweep == Init /\ [][NextNoSweep]_vars

\* ================================================================= claims
\* C1: each time a job is pending and eligible at most one worker's claim
\* transaction obtains it.  In every step that takes some job from pending to
\* processing, that job's attempts rise by exactly 1 and exactly one worker
\* leaves the head of the loop holding it; no worker comes to hold a job in
\* any other way, and the job it holds was pending before the step.
ClaimIsExclusive ==
    [][/\ \A id \in Ids :
            (jobs[id].state = "pending" /\ jobs'[id].state = "processing") =>
               /\ jobs'[id].attempts = jobs[id].attempts + 1
               /\ Cardinality({w \in Workers :
                     pc[w] = "loop" /\ pc'[w] = "claimed" /\ jobId'[w] = id}) = 1
       /\ Cardinality({w \in Workers : pc[w] # "claimed" /\ pc'[w] = "claimed"}) <= 1
       /\ \A w \in Workers :
            (pc[w] # "claimed" /\ pc'[w] = "claimed") =>
               /\ pc[w] = "loop"
               /\ jobId'[w] \in Ids
               /\ jobs[jobId'[w]].state = "pending"
               /\ jobs'[jobId'[w]].state = "processing"
               /\ jobs'[jobId'[w]].attempts = jobs[jobId'[w]].attempts + 1
      ]_vars

\* Two workers polled the same store and one of them won the job.
ClaimIsExclusiveWitness ==
    \E w, v \in Workers :
        /\ w # v
        /\ pc[w] = "claimed"
        /\ pc[v] = "loop"
        /\ jobs[jobId[w]].state = "processing"
        /\ jobs[jobId[w]].attempts = 1

\* C2: no job is being executed by two workers at the same time.
NoDoubleExecution ==
    \A w, v \in Workers :
        (w # v /\ pc[w] = "exec" /\ pc[v] = "exec") => job[w].id # job[v].id

\* C3: whenever a job's stored state becomes dead, its stored attempts are at
\* least its max_retries.
DeadOnlyWhenExhausted ==
    [][\A id \in Ids :
          (jobs[id].state # "dead" /\ jobs'[id].state = "dead") =>
             jobs'[id].attempts >= jobs'[id].max_retries
      ]_vars

\* C4: every change of a job's stored state is one of the five transitions
\* of the job state machine.
LegalTransitions ==
    {<<"pending", "processing">>, <<"processing", "completed">>,
     <<"processing", "pending">>, <<"processing", "dead">>,
     <<"dead", "pending">>}

OnlyLegalTransitions ==
    [][\A id \in Ids :
          jobs'[id].state # jobs[id].state =>
             <<jobs[id].state, jobs'[id].state>> \in LegalTransitions
      ]_vars

FirstFailurePendsJob ==
    [][\A w \in Workers :
          (finishWith(w, 2) /\ job[w].command = "exit 2"
             /\ job[w].max_retries = 1 /\ job[w].attempts = 1) =>
                /\ jobs'[job[w].id].state = "pending"
                /\ jobs'[job[w].id].available_at > now
      ]_vars

\* C6 as the code has it: the first failed execution of an always-failing job
\* with max_retries = 1 writes it dead, with available_at the failure time.
FirstFailureKillsJob ==
    [][\A w \in Workers :
          (finishWith(w, 2) /\ job[w].command = "exit 2"
             /\ job[w].max_retries = 1 /\ job[w].attempts = 1) =>
                /\ jobs'[job[w].id].state = "dead"
                /\ jobs'[job[w].id].available_at = now
                /\ jobs'[job[w].id].last_error = "exit_code=2"
      ]_vars

\* Such a job after its only execution.
FirstFailureKillsJobWitness ==
    \E id \in Ids :
        /\ jobs[id].command = "exit 2"
        /\ jobs[id].max_retries = 1
        /\ jobs[id].attempts = 1
        /\ jobs[id].state = "dead"

\* C7: the UPDATE of a dlq retry (its SELECT found the job dead) leaves the
\* job pending with attempts 0 and available_at the requeue time, hence
\* eligible for the next claim, and changes no other job.
RequeueResets ==
    [][\A r \in Requeuers :
          (rq[r].pc = "selected" /\ rq'[r].pc = "exited") =>
             /\ rq'[r].exit = 0
             /\ jobs'[rq[r].id].state = "pending"
             /\ jobs'[rq[r].id].attempts = 0
             /\ jobs'[rq[r].id].available_at = now
             /\ jobs'[rq[r].id].available_at <= now'
             /\ jobs'[rq[r].id].command = jobs[rq[r].id].command
             /\ jobs'[rq[r].id].max_retries = jobs[rq[r].id].max_retries
             /\ jobs'[rq[r].id].created_at = jobs[rq[r].id].created_at
             /\ jobs'[rq[r].id].last_error = jobs[rq[r].id].last_error
             /\ DOMAIN jobs' = DOMAIN jobs
             /\ \A o \in Ids \ {rq[r].id} : jobs'[o] = jobs[o]
      ]_vars

\* A dead job was requeued after a later tick while the other job stayed dead.
RequeueResetsWitness ==
    \E r \in Requeuers, id, o \in Ids :
        /\ rq[r].pc = "exited" /\ rq[r].exit = 0
        /\ id # o
        /\ jobs[id].state = "pending"
        /\ jobs[id].attempts = 0
        /\ jobs[id].last_error # NULL
        /\ jobs[id].available_at = now
        /\ jobs[id].available_at > jobs[id].created_at
        /\ jobs[o].state = "dead"

\* C8: a dlq retry goes on to its UPDATE only for a job that is dead, exits 1
\* without writing otherwise, and its UPDATE never touches a job that is
\* pending, processing or completed.
RequeueOnlyDead ==
    [][\A r \in Requeuers :
          /\ (rq[r].pc = "unspawned" /\ rq'[r].pc = "selected") =>
                (rq'[r].id \in Ids /\ jobs[rq'[r].id].state = "dead" /\ jobs' = jobs)
          /\ (rq[r].pc = "unspawned" /\ rq'[r].pc = "exited") =>
                (rq'[r].exit = 1 /\ jobs' = jobs)
          /\ (rq[r].pc = "selected" /\ rq'[r].pc = "exited"
                /\ jobs[rq[r].id].state # "dead") => jobs' = jobs
      ]_vars

\* C9 as stated: the sweep of a starting worker moves every processing job to
\* pending with available_at set to the sweep time and attempts unchanged,
\* and changes no other job.
SweepSetsAvailableAt ==
    [][\A w \in Workers :
          (pc[w] = "unspawned" /\ pc'[w] = "loop") =>
             \A id \in Ids :
                IF jobs[id].state = "processing"
                THEN /\ jobs'[id].state = "pending"
                     /\ jobs'[id].available_at = now
                     /\ jobs'[id].attempts = jobs[id].attempts
                ELSE jobs'[id] = jobs[id]
      ]_vars

\* C9 as the code has it: the sweep moves every processing job to pending
\* and stamps updated_at; available_at, attempts and every other column stay
\* as they were, and available_at is no later than the sweep time, so the job
\* is eligible at once.  No other job changes.  A job is taken by at most one
\* worker per step, and only from pending.
SweepKeepsAvailableAt ==
    [][/\ \A w \in Workers :
            (pc[w] = "unspawned" /\ pc'[w] = "loop") =>
               /\ DOMAIN jobs' = DOMAIN jobs
               /\ \A id \in Ids :
                    IF jobs[id].state = "processing"
                    THEN /\ jobs'[id] = [jobs[id] EXCEPT !.state = "pending",
                                                         !.updated_at = now]
                         /\ jobs'[id].available_at <= now
                    ELSE jobs'[id] = jobs[id]
       /\ \A id \in Ids :
            LET takers == {v \in Workers : pc[v] = "loop" /\ pc'[v] = "claimed"
                                             /\ jobId'[v] = id}
            IN  /\ Cardinality(takers) <= 1
                /\ takers # {} => jobs[id].state = "pending"
                                    /\ jobs'[id].state = "processing"
      ]_vars

\* A worker crashed holding a job; a worker started at a later time swept it
\* back to pending with its old available_at and its attempt still counted.
SweepKeepsAvailableAtWitness ==
    \E w, v \in Workers, id \in Ids :
        /\ pc[w] = "crashed"
        /\ pc[v] = "loop"
        /\ jobs[id].state = "pending"
        /\ jobs[id].attempts = 1
        /\ jobs[id].last_error = NULL
        /\ jobs[id].available_at < jobs[id].updated_at
        /\ jobs[id].updated_at = now

\* C10: when a termination signal ends a worker that was executing a job,
\* that job is not left in processing.
ExitAfterPersisting ==
    [][\A w \in Workers :
          (pc[w] = "exec" /\ pc'[w] \in {"exited", "terminated"}) =>
             jobs'[job[w].id].state # "processing"
      ]_vars

\* C11: once a termination signal has been delivered to a running worker, the
\* worker takes no further job when it is next at the head of its loop.
StopsClaimingAfterSignal ==
    [][\A w \in Workers :
          (sigPending[w] /\ pc[w] = "loop") => pc'[w] # "claimed"
      ]_vars

\* C12: an enqueue whose descriptor does not parse or carries no command
\* leaves the jobs table exactly as it was: no step that changes the table
\* is such an enqueue.
RejectedEnqueueWritesNothing ==
    [][jobs' # jobs =>
          \A d \in {e \in Descriptors : ~e.parsed \/ e.command = NULL} :
             ~enqueueJson(d)
      ]_vars

\* The store was opened by an enqueue that was then turned away: the config
\* rows are seeded, no job exists and no other process has run.
RejectedEnqueueWritesNothingWitness ==
    /\ config["backoff_base"] # NULL
    /\ Ids = {}
    /\ \A w \in Workers : pc[w] = "unspawned"
    /\ \A r \in Requeuers : rq[r].pc = "unspawned"

\* C13: an enqueue that creates a record creates exactly one, pending, with
\* attempts 0 and the three timestamps equal to the enqueue time, and with
\* max_retries the descriptor's value when it gives one (0 included), else
\* the configured default_max_retries.
EnqueueStoresDescriptor ==
    [][\A d \in Descriptors :
          (enqueueJson(d) /\ jobs' # jobs) =>
             \E id \in JobIds :
                /\ DOMAIN jobs' = DOMAIN jobs \cup {id}
                /\ id \notin DOMAIN jobs
                /\ \A o \in DOMAIN jobs : jobs'[o] = jobs[o]
                /\ jobs'[id].state = "pending"
                /\ jobs'[id].attempts = 0
                /\ jobs'[id].created_at = now
                /\ jobs'[id].updated_at = now
                /\ jobs'[id].available_at = now
                /\ jobs'[id].max_retries =
                      IF d.max_retries # Absent THEN d.max_retries
                      ELSE parseInt(getConfig(config, "default_max_retries"))
      ]_vars

\* C14: every enqueued job eventually is completed or dead, the worker
\* running without crashing, every command returning, time advancing and
\* the scheduling fair.
EveryJobFinishes ==
    \A id \in JobIds :
        (id \in DOMAIN jobs) ~>
            (id \in DOMAIN jobs /\ jobs[id].state \in {"completed", "dead"})

\* C17: a worker takes a new job only when no job it took earlier is still
\* stored as processing.  Checked with a single worker, so that every job in
\* processing is one this worker claimed.
PersistBeforeNextClaim ==
    [][\A w \in Workers :
          (pc[w] = "loop" /\ pc'[w] = "claimed") =>
             \A o \in Ids \ {jobId'[w]} : jobs'[o].state # "processing"
      ]_vars

\* C15: at every pending -> processing step the job's available_at is no
\* later than the claim time, which the step stamps as updated_at.
ClaimsOnlyEligible ==
    [][\A id \in Ids :
          (jobs[id].state = "pending" /\ jobs'[id].state = "processing") =>
             /\ jobs[id].available_at <= now
             /\ jobs'[id].updated_at = now
      ]_vars

\* A job that failed once was claimed again, at or after the end of its
\* backoff.
ClaimsOnlyEligibleWitness ==
    \E id \in Ids :
        /\ jobs[id].state = "processing"
        /\ jobs[id].attempts = 2
        /\ jobs[id].last_error # NULL
        /\ jobs[id].available_at > jobs[id].created_at
        /\ jobs[id].available_at <= jobs[id].updated_at

\* C16: a worker that takes a job takes one that is eligible and has the
\* smallest created_at of the eligible jobs; with nothing eligible no job
\* becomes processing.
OldestFirst ==
    [][/\ \A w \in Workers :
            (pc[w] = "loop" /\ pc'[w] = "claimed") =>
               /\ jobId'[w] \in Eligible(now)
               /\ \A o \in Eligible(now) :
                     jobs[jobId'[w]].created_at <= jobs[o].created_at
       /\ Eligible(now) = {} =>
             /\ \A w \in Workers : pc[w] = "loop" => pc'[w] # "claimed"
             /\ \A id \in Ids :
                   jobs'[id].state = "processing" => jobs[id].state = "processing"
      ]_vars

\* The older of two eligible jobs was taken, the younger is still waiting.
OldestFirstWitness ==
    \E w \in Workers, a, b \in Ids :
        /\ pc[w] = "claimed" /\ jobId[w] = a
        /\ jobs[a].created_at < jobs[b].created_at
        /\ jobs[b].state = "pending"
        /\ jobs[b].available_at <= jobs[a].updated_at

\* C18: a job's stored attempts decrease only in a step that takes the job
\* from dead to pending, and that step leaves them at 0.
AttemptsMonotone ==
    [][\A id \in Ids :
          jobs'[id].attempts < jobs[id].attempts =>
             /\ jobs[id].state = "dead"
             /\ jobs'[id].state = "pending"
             /\ jobs'[id].attempts = 0
      ]_vars

\* C19: no step changes the state, attempts or last_error of a job that is
\* completed.
CompletedIsFinal ==
    [][\A id \in Ids :
          jobs[id].state = "completed" =>
             /\ jobs'[id].state = "completed"
             /\ jobs'[id].attempts = jobs[id].attempts
             /\ jobs'[id].last_error = jobs[id].last_error
      ]_vars

\* C20: a worker takes backoffBase from the config table when it starts,
\* keeps that value for as long as it runs whatever is written to the table,
\* and computes every retry delay from it.
BaseHeldForLifetime ==
    [][\A w \in Workers :
          /\ (pc[w] = "unspawned" /\ pc'[w] = "loop") =>
                backoffBase'[w] = parseFloat(getConfig(config, "backoff_base"))
          /\ (Running(w) /\ pc'[w] \in {"loop", "claimed", "exec"}) =>
                backoffBase'[w] = backoffBase[w]
          /\ \A rc \in {1, 2} :
                (finishWith(w, rc) /\ job[w].attempts < job[w].max_retries) =>
                   jobs'[job[w].id].available_at - now
                      = pow(backoffBase[w], job[w].attempts)
      ]_vars

\* backoff_base was set to 1 while a worker started under base 2 was
\* running: that worker still delays a first retry by 2, and a worker
\* started after the change holds 1.
BaseHeldForLifetimeWitness ==
    \E w, v \in Workers, id \in Ids :
        /\ Running(w) /\ backoffBase[w] = 2
        /\ Running(v) /\ backoffBase[v] = 1
        /\ config["backoff_base"] = "1"
        /\ jobs[id].state = "pending"
        /\ jobs[id].attempts = 1
        /\ jobs[id].last_error # NULL
        /\ jobs[id].updated_at = now
        /\ jobs[id].available_at = now + 2

\* C21: the set of job ids only grows, a step that adds an id adds exactly
\* one and leaves every existing record as it was, and an enqueue naming an
\* id that exists changes nothing in the jobs table.
IdsOnlyGrow ==
    [][/\ DOMAIN jobs \subseteq DOMAIN jobs'
       /\ DOMAIN jobs' # DOMAIN jobs =>
             /\ Cardinality(DOMAIN jobs' \ DOMAIN jobs) = 1
             /\ \A o \in DOMAIN jobs : jobs'[o] = jobs[o]
       /\ jobs' # jobs =>
             \A d \in {e \in Descriptors : e.id \in Ids} : ~enqueueJson(d)
      ]_vars

\* Two jobs are stored, one of them already worked to its end at an earlier
\* time: an enqueue naming its id would find the id taken.
IdsOnlyGrowWitness ==
    /\ Cardinality(Ids) = 2
    /\ \E id \in Ids :
          /\ jobs[id].state \in {"completed", "dead"}
          /\ jobs[id].attempts = 1
          /\ jobs[id].updated_at < now

\* C22: with no worker started while a job is in processing, the stored
\* attempts of a job with max_retries >= 1 never exceed its max_retries.
AttemptsWithinMaxRetries ==
    \A id \in Ids :
        jobs[id].max_retries >= 1 => jobs[id].attempts <= jobs[id].max_retries

\* C23: a config set of k to v is read back as v; a key that has a value
\* changes only by a config set of that key, whatever opens the store; and a
\* key that had no row gets its default (2, 3) or the value being set.
SetConfigIsKept ==
    [][\A k \in ConfigKeys :
          /\ \A v \in ConfigValues :
                setConfig(k, v) => getConfig(config', k) = v
          /\ (config[k] # NULL /\ config'[k] # config[k]) =>
                \E v \in ConfigValues : setConfig(k, v)
          /\ (config[k] = NULL /\ config'[k] # NULL) =>
                \/ config'[k] = String(IF k = "backoff_base"
                                       THEN DEFAULT_BACKOFF_BASE
                                       ELSE DEFAULT_MAX_RETRIES)
                \/ \E v \in ConfigValues : setConfig(k, v)
      ]_vars

\* backoff_base was set to 1, default_max_retries never: a worker started
\* afterwards opened the store, read 1, and the other key shows its default.
SetConfigIsKeptWitness ==
    /\ config["backoff_base"] = "1"
    /\ config["default_max_retries"] = String(DEFAULT_MAX_RETRIES)
    /\ \E w \in Workers : pc[w] = "loop" /\ backoffBase[w] = 1
    /\ \E id \in Ids : jobs[id].max_retries = DEFAULT_MAX_RETRIES

====
